---------------------------- MODULE Spec2Model ----------------------------
(***************************************************************************)
(* A model of the SSL Nucleus 2 ipMIDI bridge (src/main.py).               *)
(*                                                                         *)
(* The bridge joins three UDP multicast ports to one virtual MIDI port.    *)
(* One receive thread per multicast port decodes datagrams and forwards    *)
(* the messages to the virtual port; one poll thread drains the virtual    *)
(* port and fans every message out to the three multicast senders.  Two    *)
(* maps of recently forwarded message identities suppress echoes.          *)
(*                                                                         *)
(* Python values are modelled as follows.  A mido Message is a record      *)
(* whose field "type" is mido's type name.  bytes are sequences of         *)
(* integers 0..255, indexed from 0 through At.  None (as a msg_key) is     *)
(* the empty tuple.  time.time() is the variable now, in milliseconds.     *)
(***************************************************************************)
EXTENDS Integers, Sequences, FiniteSets, TLC

(***************************************************************************)
(* Program constants.                                                      *)
(***************************************************************************)
IPMIDI_PORTS == <<1, 2, 3>>

TRANSLATE_TO_CC == FALSE

FADER_CC_MAP == [c \in 0..8 |-> c + 1]

\* self.debounce_time = 0.05 seconds, in milliseconds
debounce_time == 50

\* 7-bit data bytes and 4-bit channels (mido's checks on a Message)
MaxDataByte == 127

MaxChannel == 15

MinPitch == -8192

MaxPitch == 8191

(***************************************************************************)
(* Bounds of the model.                                                    *)
(***************************************************************************)
\* messages per buffer in the decoder's inputs
MaxMsgs == 2

\* NoteOn encodings per buffer in the decoder's NoteOn inputs
MaxNoteOns == 3

\* datagrams and virtual-port messages delivered in one run, together
MaxInputs == 2

\* the clock advances in steps of TickMs milliseconds, up to MaxNow
TickMs == 25

MaxNow == 50

\* arbitrary buffers handed to the decoder have at most MaxBufLen bytes
MaxBufLen == 3

(***************************************************************************)
(* mido.Message: constructors and the constructor's range checks.          *)
(***************************************************************************)
NoteOff(c, n, v) == [type |-> "note_off", channel |-> c, note |-> n, velocity |-> v]

NoteOn(c, n, v) == [type |-> "note_on", channel |-> c, note |-> n, velocity |-> v]

PolyTouch(c, n, v) == [type |-> "polytouch", channel |-> c, note |-> n, value |-> v]

ControlChange(c, n, v) == [type |-> "control_change", channel |-> c, control |-> n, value |-> v]

ProgramChange(c, p) == [type |-> "program_change", channel |-> c, program |-> p]

AfterTouch(c, v) == [type |-> "aftertouch", channel |-> c, value |-> v]

PitchWheel(c, p) == [type |-> "pitchwheel", channel |-> c, pitch |-> p]

SysEx(d) == [type |-> "sysex", data |-> d]

RealTime(t) == [type |-> t]

IsData(b) == b \in 0..MaxDataByte

\* Message(...) raises ValueError unless every field is in range
MessageOk(m) ==
    CASE m.type \in {"note_off", "note_on"} ->
            m.channel \in 0..MaxChannel /\ IsData(m.note) /\ IsData(m.velocity)
      [] m.type = "polytouch" ->
            m.channel \in 0..MaxChannel /\ IsData(m.note) /\ IsData(m.value)
      [] m.type = "control_change" ->
            m.channel \in 0..MaxChannel /\ IsData(m.control) /\ IsData(m.value)
      [] m.type = "program_change" ->
            m.channel \in 0..MaxChannel /\ IsData(m.program)
      [] m.type = "aftertouch" ->
            m.channel \in 0..MaxChannel /\ IsData(m.value)
      [] m.type = "pitchwheel" ->
            m.channel \in 0..MaxChannel /\ m.pitch \in MinPitch..MaxPitch
      [] m.type = "sysex" ->
            \A j \in 1..Len(m.data) : IsData(m.data[j])
      [] OTHER -> TRUE

(***************************************************************************)
(* NucleusBridge.msg_key, is_echo, mark_sent.                              *)
(***************************************************************************)
None == <<>>

msg_key_with_pitch(msg) ==
    CASE msg.type = "note_on" -> <<"note_on", msg.channel, msg.note, msg.velocity>>
      [] msg.type = "note_off" -> <<"note_off", msg.channel, msg.note>>
      [] msg.type = "control_change" -> <<"cc", msg.channel, msg.control, msg.value>>
      [] msg.type = "pitchwheel" -> <<"pitch", msg.channel, msg.pitch>>
      [] OTHER -> None

msg_key(msg) ==
    CASE msg.type = "note_on" -> <<"note_on", msg.channel, msg.note, msg.velocity>>
      [] msg.type = "note_off" -> <<"note_off", msg.channel, msg.note>>
      [] msg.type = "control_change" -> <<"cc", msg.channel, msg.control, msg.value>>
      [] msg.type = "pitchwheel" -> <<"pitch", msg.channel>>
      [] OTHER -> None

\* recent_dict is a function from keys to timestamps; t is time.time()
is_echo_inclusive(msg, recent_dict, t) ==
    LET key == msg_key(msg)
    IN  IF key = None THEN FALSE
        ELSE /\ key \in DOMAIN recent_dict
             /\ t - recent_dict[key] <= debounce_time

is_echo(msg, recent_dict, t) ==
    LET key == msg_key(msg)
    IN  IF key = None THEN FALSE
        ELSE /\ key \in DOMAIN recent_dict
             /\ t - recent_dict[key] < debounce_time

\* an identity already recorded keeps its first timestamp
mark_sent_once(msg, recent_dict, t) ==
    LET key == msg_key(msg)
    IN  IF key = None \/ key \in DOMAIN recent_dict THEN recent_dict
        ELSE [k \in DOMAIN recent_dict \cup {key} |-> IF k = key THEN t ELSE recent_dict[k]]

mark_sent(msg, recent_dict, t) ==
    LET key == msg_key(msg)
    IN  IF key # None
        THEN [k \in DOMAIN recent_dict \cup {key} |->
                 IF k = key THEN t ELSE recent_dict[k]]
        ELSE recent_dict

(***************************************************************************)
(* NucleusBridge.parse_midi_bytes.  The result is the list of messages,    *)
(* or raised = TRUE when a Message constructor raised.                     *)
(***************************************************************************)
At(data, i) == data[i + 1]

\* data.find(0xF7, i): the first index >= i holding 0xF7, or -1
Find(data, b, i) ==
    LET hits == {j \in i..(Len(data) - 1) : At(data, j) = b}
    IN  IF hits = {} THEN -1 ELSE CHOOSE j \in hits : \A h \in hits : j <= h

\* a | (b << 7) for bytes a, b in 0..255
OrShift7(a, b) ==
    LET hi == IF a >= 128 /\ b % 2 = 0 THEN b + 1 ELSE b
    IN  (a % 128) + 128 * hi

\* data[i+1:end] as a tuple
Slice(data, lo, hi) == [j \in 1..(hi - lo) |-> At(data, lo + j - 1)]

\* no message: the branch appends nothing
NoMsg == [type |-> "none"]

\* if i + k < len(data): the k data bytes after data[i] are in the buffer
CompleteStrict(i, k, n) == i + k + 1 < n

Complete(i, k, n) == i + k < n

\* the Note On branch: velocity 0 is reported as note_off
NoteOnKeepZero(ch, note, vel) == NoteOn(ch, note, vel)

NoteOnMsg(ch, note, vel) ==
    IF vel = 0 THEN NoteOff(ch, note, 0) ELSE NoteOn(ch, note, vel)

\* the Pitch Bend branch: value = data[i+1] | (data[i+2] << 7); pitch = value - 8192
PitchValueSwapped(lsb, msb) == OrShift7(msb, lsb) - 8192

PitchValue(lsb, msb) == OrShift7(lsb, msb) - 8192

\* the message the branch for status byte data[i] builds, its length in
\* bytes, and whether the branch finds the bytes it needs
Branch(data, i) ==
    LET status == At(data, i)
        n == Len(data)
        ch == status % 16
    IN  CASE status \in 128..143 ->
               [ok |-> Complete(i, 2, n), len |-> 3,
                msg |-> IF Complete(i, 2, n)
                        THEN NoteOff(ch, At(data, i + 1), At(data, i + 2)) ELSE NoMsg]
          [] status \in 144..159 ->
               [ok |-> Complete(i, 2, n), len |-> 3,
                msg |-> IF Complete(i, 2, n)
                        THEN NoteOnMsg(ch, At(data, i + 1), At(data, i + 2))
                        ELSE NoMsg]
          [] status \in 160..175 ->
               [ok |-> Complete(i, 2, n), len |-> 3,
                msg |-> IF Complete(i, 2, n)
                        THEN PolyTouch(ch, At(data, i + 1), At(data, i + 2)) ELSE NoMsg]
          [] status \in 176..191 ->
               [ok |-> Complete(i, 2, n), len |-> 3,
                msg |-> IF Complete(i, 2, n)
                        THEN ControlChange(ch, At(data, i + 1), At(data, i + 2)) ELSE NoMsg]
          [] status \in 192..207 ->
               [ok |-> Complete(i, 1, n), len |-> 2,
                msg |-> IF Complete(i, 1, n) THEN ProgramChange(ch, At(data, i + 1)) ELSE NoMsg]
          [] status \in 208..223 ->
               [ok |-> Complete(i, 1, n), len |-> 2,
                msg |-> IF Complete(i, 1, n) THEN AfterTouch(ch, At(data, i + 1)) ELSE NoMsg]
          [] status \in 224..239 ->
               [ok |-> Complete(i, 2, n), len |-> 3,
                msg |-> IF Complete(i, 2, n)
                        THEN PitchWheel(ch, PitchValue(At(data, i + 1), At(data, i + 2)))
                        ELSE NoMsg]
          [] status = 240 ->
               LET end == Find(data, 247, i)
               IN  [ok |-> end # -1, len |-> end + 1 - i,
                    msg |-> IF end # -1 THEN SysEx(Slice(data, i + 1, end)) ELSE NoMsg]
          [] status = 248 -> [ok |-> TRUE, len |-> 1, msg |-> RealTime("clock")]
          [] status = 250 -> [ok |-> TRUE, len |-> 1, msg |-> RealTime("start")]
          [] status = 251 -> [ok |-> TRUE, len |-> 1, msg |-> RealTime("continue")]
          [] status = 252 -> [ok |-> TRUE, len |-> 1, msg |-> RealTime("stop")]
          [] status = 254 -> [ok |-> TRUE, len |-> 1, msg |-> RealTime("active_sensing")]
          [] OTHER -> [ok |-> TRUE, len |-> 1, msg |-> NoMsg]

RECURSIVE ParseLoop(_, _, _)
ParseLoop(data, i, messages) ==
    IF ~(i < Len(data)) THEN [messages |-> messages, raised |-> FALSE]
    ELSE LET b == Branch(data, i)
         IN  IF ~b.ok THEN [messages |-> messages, raised |-> FALSE]
             ELSE IF b.msg = NoMsg THEN ParseLoop(data, i + 1, messages)
             ELSE IF ~MessageOk(b.msg) THEN [messages |-> <<>>, raised |-> TRUE]
             ELSE ParseLoop(data, i + b.len, Append(messages, b.msg))

parse_midi_bytes(data) == ParseLoop(data, 0, <<>>)

(***************************************************************************)
(* mido's Message.bytes(), as called in handle_from_daw.                   *)
(***************************************************************************)
MsgBytes(m) ==
    CASE m.type = "note_off" -> <<128 + m.channel, m.note, m.velocity>>
      [] m.type = "note_on" -> <<144 + m.channel, m.note, m.velocity>>
      [] m.type = "polytouch" -> <<160 + m.channel, m.note, m.value>>
      [] m.type = "control_change" -> <<176 + m.channel, m.control, m.value>>
      [] m.type = "program_change" -> <<192 + m.channel, m.program>>
      [] m.type = "aftertouch" -> <<208 + m.channel, m.value>>
      [] m.type = "pitchwheel" ->
            <<224 + m.channel, (m.pitch + 8192) % 128, (m.pitch + 8192) \div 128>>
      [] m.type = "sysex" -> <<240>> \o m.data \o <<247>>
      [] m.type = "clock" -> <<248>>
      [] m.type = "start" -> <<250>>
      [] m.type = "continue" -> <<251>>
      [] m.type = "stop" -> <<252>>
      [] m.type = "active_sensing" -> <<254>>

(***************************************************************************)
(* NucleusBridge.translate_to_cc and translate_from_cc.  Python computes   *)
(* int(x / 16383 * 127) and int(v / 127 * 16383) in double precision; on   *)
(* every x in 0..16383 and v in 0..127 the result equals the exact floor,  *)
(* so integer division models it.                                          *)
(***************************************************************************)
Max(a, b) == IF a >= b THEN a ELSE b

Min(a, b) == IF a <= b THEN a ELSE b

\* cc_value = int((msg.pitch + 8192) / 16383 * 127), then clamped to 0..127
ToCCValueBy16384(pitch) == Max(0, Min(127, ((pitch + 8192) * 127) \div 16384))

ToCCValue(pitch) == Max(0, Min(127, ((pitch + 8192) * 127) \div 16383))

translate_to_cc(msg) ==
    IF msg.type = "pitchwheel" /\ msg.channel \in DOMAIN FADER_CC_MAP
    THEN ControlChange(0, FADER_CC_MAP[msg.channel], ToCCValue(msg.pitch))
    ELSE msg

\* pitch = int(msg.value / 127 * 16383) - 8192
FromCCPitchBy16384(value) == ((value * 16384) \div 127) - 8192

\* the value shifted into the upper seven bits
FromCCPitchShift7(value) == (value * 128) - 8192

FromCCPitch(value) == ((value * 16383) \div 127) - 8192

translate_from_cc(msg) ==
    IF /\ msg.type = "control_change"
       /\ \E c \in DOMAIN FADER_CC_MAP : FADER_CC_MAP[c] = msg.control
    THEN LET channel == CHOOSE c \in DOMAIN FADER_CC_MAP : FADER_CC_MAP[c] = msg.control
         IN  PitchWheel(channel, FromCCPitch(msg.value))
    ELSE msg

(***************************************************************************)
(* State.                                                                  *)
(***************************************************************************)
VARIABLES
    LOCAL_IP,           \* module global: TRUE when find_link_local_ip found an address
    mainpc,             \* the main thread's place in start / stop
    port,               \* start's loop index into IPMIDI_PORTS
    midi_out, midi_in,  \* the virtual port handles: "none", "open", "closed"
    running,            \* NucleusBridge.running
    receivers, senders, \* the lists self.receivers, self.senders (port numbers)
    rsock, ssock,       \* per port: the receive / send socket: "none", "open", "closed"
    rrunning,           \* per port: ipMIDIReceiver.running
    rpc,                \* per port: the receive thread's place
    rmsgs,              \* per port: the messages of the datagram still to handle
    rreg,               \* per port: the value of rx_count the thread has loaded
    dawpc,              \* the poll thread's place
    dawmsg,             \* the message the poll thread is handling (out_msg once translated)
    rx_count, tx_count, \* the counters
    recent_to_daw, recent_to_nucleus,  \* the echo records: msg_key -> timestamp
    now,                \* time.time(), in milliseconds
    received,           \* history: datagrams received so far
    decoded, drained,   \* history: messages decoded so far, messages drained so far
    fwd_to_daw, fwd_to_nucleus,  \* history: identity -> time its last forward completed
    ev,                 \* history: what the last handler step did
    rx_observed,        \* history per port: the messages decoded from its datagrams
    rx_delivered,       \* history per port: its messages handed to midi_out.send
    tx_observed,        \* history: the messages iter_pending() delivered
    tx_sent,            \* history per port: the encodings its sender transmitted
    call, arg, ret      \* a direct call of one of the pure methods

orderVars == <<rx_observed, rx_delivered, tx_observed, tx_sent>>

bridgeVars == <<LOCAL_IP, mainpc, port, midi_out, midi_in, running, receivers, senders,
                rsock, ssock, rrunning, rpc, rmsgs, rreg, dawpc, dawmsg,
                rx_count, tx_count, recent_to_daw, recent_to_nucleus, now,
                received, decoded, drained, fwd_to_daw, fwd_to_nucleus, ev, orderVars>>

callVars == <<call, arg, ret>>

vars == <<bridgeVars, orderVars, callVars>>

Ports == {IPMIDI_PORTS[j] : j \in 1..Len(IPMIDI_PORTS)}

EmptyDict == [k \in {} |-> 0]

NoEvent == [kind |-> "none"]

\* NucleusBridge.__init__, and the module globals
BridgeInit ==
    /\ LOCAL_IP \in BOOLEAN
    /\ mainpc = "init"
    /\ port = 0
    /\ midi_out = "none"
    /\ midi_in = "none"
    /\ running = FALSE
    /\ receivers = <<>>
    /\ senders = <<>>
    /\ rsock = [p \in Ports |-> "none"]
    /\ ssock = [p \in Ports |-> "none"]
    /\ rrunning = [p \in Ports |-> FALSE]
    /\ rpc = [p \in Ports |-> "none"]
    /\ rmsgs = [p \in Ports |-> <<>>]
    /\ rreg = [p \in Ports |-> 0]
    /\ dawpc = "none"
    /\ dawmsg = NoMsg
    /\ rx_count = 0
    /\ tx_count = 0
    /\ recent_to_daw = EmptyDict
    /\ recent_to_nucleus = EmptyDict
    /\ now = 0
    /\ received = 0
    /\ decoded = 0
    /\ drained = 0
    /\ fwd_to_daw = EmptyDict
    /\ fwd_to_nucleus = EmptyDict
    /\ ev = NoEvent
    /\ rx_observed = [p \in Ports |-> <<>>]
    /\ rx_delivered = [p \in Ports |-> <<>>]
    /\ tx_observed = <<>>
    /\ tx_sent = [p \in Ports |-> <<>>]

NoCall == call = "none" /\ arg = <<>> /\ ret = <<>>

(***************************************************************************)
(* The decoder and the encoder, called directly.  An input is a list of    *)
(* complete encodings (chunks) followed by trailing bytes (tail); the      *)
(* buffer handed to parse_midi_bytes is their concatenation.               *)
(***************************************************************************)
RECURSIVE Flatten(_)
Flatten(chunks) ==
    IF chunks = <<>> THEN <<>> ELSE Head(chunks) \o Flatten(Tail(chunks))

Buffer(input) == Flatten(input.chunks) \o input.tail

SeqsUpTo(S, n) == UNION {[1..k -> S] : k \in 0..n}

\* status bytes of the channel voice messages with two data bytes and with one
Voice3 == {128, 144, 160, 176, 224}

Voice2 == {192, 208}

RealTimeStatus == {248, 250, 251, 252, 254}

\* e is the complete encoding of one non-SysEx message
IsSingleEncoding(e) ==
    /\ Len(e) \in 1..3
    /\ \/ Len(e) = 3 /\ (e[1] - (e[1] % 16)) \in Voice3 /\ IsData(e[2]) /\ IsData(e[3])
       \/ Len(e) = 2 /\ (e[1] - (e[1] % 16)) \in Voice2 /\ IsData(e[2])
       \/ Len(e) = 1 /\ e[1] \in RealTimeStatus

NoteOnEncodings ==
    {<<144 + c, n, v>> : c \in {0, 15}, n \in {0, 127}, v \in {0, 1, 127}}

\* complete encodings of every kind, SysEx included
ChunkSample ==
    {<<s + c, 0, 127>> : s \in Voice3, c \in {0, 15}}
    \cup {<<144, 60, 0>>, <<193, 5>>, <<210, 127>>, <<248>>, <<254>>,
          <<240, 247>>, <<240, 1, 127, 247>>}

\* proper prefixes of one more message
TailSample ==
    {<<s + c>> : s \in Voice3 \cup Voice2, c \in {0, 15}}
    \cup {<<s, a>> : s \in Voice3, a \in {0, 127}}
    \cup {<<240>>, <<240, 0>>, <<240, 127, 1>>}

\* the inputs: every complete encoding of one non-SysEx message; up to
\* MaxNoteOns NoteOn encodings; up to MaxMsgs complete encodings followed by
\* nothing or by a proper prefix of one more
DecodeInit ==
    /\ BridgeInit
    /\ LOCAL_IP
    /\ call = "input"
    /\ ret = <<>>
    /\ \/ \E s \in Voice3, c \in 0..MaxChannel, a \in 0..MaxDataByte, b \in 0..MaxDataByte :
             arg = [chunks |-> <<(<<s + c, a, b>>)>>, tail |-> <<>>]
       \/ \E s \in Voice2, c \in 0..MaxChannel, a \in 0..MaxDataByte :
             arg = [chunks |-> <<(<<s + c, a>>)>>, tail |-> <<>>]
       \/ \E s \in RealTimeStatus : arg = [chunks |-> <<(<<s>>)>>, tail |-> <<>>]
       \/ \E c \in SeqsUpTo(NoteOnEncodings, MaxNoteOns) : arg = [chunks |-> c, tail |-> <<>>]
       \/ \E c \in SeqsUpTo(ChunkSample, MaxMsgs), t \in TailSample \cup {<<>>} :
             arg = [chunks |-> c, tail |-> t]

\* messages = self.parse_midi_bytes(data)
CallParse ==
    /\ call = "input"
    /\ call' = "parse_midi_bytes"
    /\ ret' = parse_midi_bytes(Buffer(arg))
    /\ UNCHANGED <<arg, bridgeVars>>

\* data = bytes(out_msg.bytes()), on each message the decoder returned
CallBytes ==
    /\ call = "parse_midi_bytes"
    /\ ~ret.raised
    /\ call' = "bytes"
    /\ ret' = [ret EXCEPT !.messages = [j \in 1..Len(ret.messages) |-> MsgBytes(ret.messages[j])]]
    /\ UNCHANGED <<arg, bridgeVars>>

DecodeNext == CallParse \/ CallBytes

SpecDecode == DecodeInit /\ [][DecodeNext]_vars

IsSingleInput(input) ==
    /\ input.tail = <<>>
    /\ Len(input.chunks) = 1
    /\ IsSingleEncoding(input.chunks[1])

IsNoteOnInput(input) ==
    /\ input.tail = <<>>
    /\ \A j \in 1..Len(input.chunks) : input.chunks[j] \in NoteOnEncodings

IsTruncatedInput(input) ==
    /\ input.tail \in TailSample
    /\ \A j \in 1..Len(input.chunks) : input.chunks[j] \in ChunkSample

\* C2 as stated: a complete encoding of one non-SysEx message decodes to
\* exactly one message, and encoding that message gives the input bytes back.
C2_RoundTripAllEncodings ==
    IsSingleInput(arg) =>
        /\ call = "parse_midi_bytes" => ~ret.raised /\ Len(ret.messages) = 1
        /\ call = "bytes" => ret.messages = <<arg.chunks[1]>>

\* the bytes a complete encoding comes back as: itself, or the NoteOff
\* encoding 0x8n nn 00 for a NoteOn with velocity 0
ReEncoded(e) ==
    IF e[1] \in 144..159 /\ e[3] = 0 THEN <<e[1] - 16, e[2], 0>> ELSE e

\* C2 amended: a complete encoding of one non-SysEx message decodes to exactly
\* one message, and encoding that message gives the input bytes back, except
\* that a NoteOn with velocity 0 (0x9n nn 00) comes back as the NoteOff 0x8n nn 00.
C2_RoundTripExceptNoteOnZero ==
    IsSingleInput(arg) =>
        /\ call = "parse_midi_bytes" => ~ret.raised /\ Len(ret.messages) = 1
        /\ call = "bytes" => ret.messages = <<ReEncoded(arg.chunks[1])>>

C2_Witness ==
    /\ call = "bytes"
    /\ arg = [chunks |-> <<(<<239, 77, 127>>)>>, tail |-> <<>>]
    /\ ret.messages = <<(<<239, 77, 127>>)>>

\* C3: a buffer of N complete NoteOn encodings decodes to exactly N messages,
\* the i-th with the channel and note of the i-th encoding: a note_on with the
\* same velocity when the velocity is 1..127, a note_off with velocity 0 when
\* it is 0.
C3_NoteOnBuffers ==
    (call = "parse_midi_bytes" /\ IsNoteOnInput(arg)) =>
        /\ ~ret.raised
        /\ Len(ret.messages) = Len(arg.chunks)
        /\ \A j \in 1..Len(arg.chunks) :
              LET e == arg.chunks[j]
                  m == ret.messages[j]
              IN  /\ m.channel = e[1] - 144
                  /\ m.note = e[2]
                  /\ m.velocity = e[3]
                  /\ m.type = IF e[3] = 0 THEN "note_off" ELSE "note_on"

C3_Witness ==
    /\ call = "parse_midi_bytes"
    /\ arg = [chunks |-> <<(<<144, 0, 1>>), <<159, 127, 0>>, <<159, 127, 127>>>>, tail |-> <<>>]
    /\ Len(ret.messages) = 3
    /\ ret.messages[2] = NoteOff(15, 127, 0)
    /\ ret.messages[3] = NoteOn(15, 127, 127)

\* C4: on k complete messages followed by a proper prefix of one more, the
\* decoder does not raise and returns exactly the k messages of the complete
\* encodings, in order; the partial message is dropped.
C4_TruncatedInput ==
    (call = "parse_midi_bytes" /\ IsTruncatedInput(arg)) =>
        /\ ~ret.raised
        /\ Len(ret.messages) = Len(arg.chunks)
        /\ \A j \in 1..Len(arg.chunks) :
              parse_midi_bytes(arg.chunks[j]) =
                  [messages |-> <<ret.messages[j]>>, raised |-> FALSE]

C4_Witness ==
    /\ call = "parse_midi_bytes"
    /\ arg = [chunks |-> <<(<<240, 1, 127, 247>>), <<193, 5>>>>, tail |-> <<224, 127>>]
    /\ ret = [messages |-> <<SysEx(<<1, 127>>), ProgramChange(1, 5)>>, raised |-> FALSE]

(***************************************************************************)
(* The fader translator, called directly.                                  *)
(***************************************************************************)
TranslateInit ==
    /\ BridgeInit
    /\ LOCAL_IP
    /\ call = "input"
    /\ ret = <<>>
    /\ \/ \E c \in 0..MaxChannel, p \in MinPitch..MaxPitch : arg = PitchWheel(c, p)
       \/ \E c \in {0, 5, MaxChannel}, n \in 0..MaxDataByte, v \in 0..MaxDataByte :
             arg = ControlChange(c, n, v)
       \/ \E c \in {0, 8, 9}, n \in {0, 1, 9}, v \in {0, 1, 9, 127} :
             arg \in {NoteOn(c, n, v), NoteOff(c, n, v), PolyTouch(c, n, v)}
       \/ arg \in {RealTime("clock"), SysEx(<<1, 9>>), ProgramChange(1, 9), AfterTouch(8, 1)}

\* out_msg = self.translate_to_cc(msg)
CallToCC ==
    /\ call = "input"
    /\ call' = "translate_to_cc"
    /\ ret' = translate_to_cc(arg)
    /\ UNCHANGED <<arg, bridgeVars>>

\* out_msg = self.translate_from_cc(msg)
CallFromCC ==
    /\ call = "input"
    /\ call' = "translate_from_cc"
    /\ ret' = translate_from_cc(arg)
    /\ UNCHANGED <<arg, bridgeVars>>

\* self.translate_to_cc(self.translate_from_cc(msg))
CallToCCOfResult ==
    /\ call = "translate_from_cc"
    /\ call' = "to_cc_of_from_cc"
    /\ ret' = translate_to_cc(ret)
    /\ UNCHANGED <<arg, bridgeVars>>

TranslateNext == CallToCC \/ CallFromCC \/ CallToCCOfResult

SpecTranslate == TranslateInit /\ [][TranslateNext]_vars

IsFaderPitch(m) == m.type = "pitchwheel" /\ m.channel \in 0..8

IsFaderCC(m) == m.type = "control_change" /\ m.control \in 1..9

\* round(a / b) for a >= 0, b > 0 (no a / b used here falls on a half)
Round(a, b) == (2 * a + b) \div (2 * b)

\* C5 as stated: a PitchBend on channel c in 0..8 with pitch p becomes
\* ControlChange(0, c + 1, v) with v = round((p + 8192) * 127 / 16383) clamped
\* to 0..127.
C5_ForwardRounds ==
    (call = "translate_to_cc" /\ IsFaderPitch(arg)) =>
        ret = ControlChange(0, arg.channel + 1,
                            Max(0, Min(127, Round((arg.pitch + 8192) * 127, 16383))))

\* C5 amended: a PitchBend on channel c in 0..8 with pitch p becomes
\* ControlChange(0, c + 1, v) with v = floor((p + 8192) * 127 / 16383), the
\* quotient truncated and not rounded; v lies in 0..127, p = -8192 gives 0 and
\* p = 8191 gives 127.
C5_ForwardTruncates ==
    (call = "translate_to_cc" /\ IsFaderPitch(arg)) =>
        /\ ret.type = "control_change"
        /\ ret.channel = 0
        /\ ret.control = arg.channel + 1
        /\ ret.value \in 0..127
        /\ ret.value * 16383 <= (arg.pitch + 8192) * 127
        /\ (arg.pitch + 8192) * 127 < (ret.value + 1) * 16383
        /\ arg.pitch = -8192 => ret.value = 0
        /\ arg.pitch = 8191 => ret.value = 127

C5_Witness ==
    /\ call = "translate_to_cc"
    /\ arg = PitchWheel(8, 8191)
    /\ ret = ControlChange(0, 9, 127)

\* C6: a ControlChange with control n in 1..9 and value v, on any channel,
\* becomes PitchBend(n - 1, floor(v * 16383 / 127) - 8192), whose pitch lies in
\* -8192..8191 (v = 0 gives -8192, v = 127 gives 8191); translate_from_cc
\* returns every other message unchanged.
C6_Reverse ==
    call = "translate_from_cc" =>
        IF IsFaderCC(arg)
        THEN /\ ret.type = "pitchwheel"
             /\ ret.channel = arg.control - 1
             /\ ret.pitch \in -8192..8191
             /\ (ret.pitch + 8192) * 127 <= arg.value * 16383
             /\ arg.value * 16383 < (ret.pitch + 8192 + 1) * 127
             /\ arg.value = 0 => ret.pitch = -8192
             /\ arg.value = 127 => ret.pitch = 8191
        ELSE ret = arg

C6_Witness ==
    /\ call = "translate_from_cc"
    /\ arg = ControlChange(15, 9, 127)
    /\ ret = PitchWheel(8, 8191)

(***************************************************************************)
(* The message identity, called directly on two messages: msg_key on       *)
(* each, and is_echo on the second against a record in which mark_sent     *)
(* entered the first some milliseconds earlier.                            *)
(***************************************************************************)
KeyMessages ==
    {NoteOn(c, n, v) : c \in {0, 1}, n \in {60, 61}, v \in {1, 100}}
    \cup {NoteOff(c, n, v) : c \in {0, 1}, n \in {60, 61}, v \in {0, 64}}
    \cup {ControlChange(c, n, v) : c \in {0, 1}, n \in {1, 7}, v \in {0, 127}}
    \cup {PitchWheel(c, p) : c \in {0, 1, 8}, p \in {-8192, 0, 8191}}
    \cup {RealTime("clock"), SysEx(<<1>>)}

\* milliseconds between mark_sent and is_echo
Delays == {0, debounce_time - 1, debounce_time, debounce_time + 1}

KeyInit ==
    /\ BridgeInit
    /\ LOCAL_IP
    /\ call = "input"
    /\ ret = <<>>
    /\ \E m1 \in KeyMessages, m2 \in KeyMessages : arg = <<m1, m2>>

CallMsgKey ==
    /\ call = "input"
    /\ call' = "msg_key"
    /\ ret' = <<msg_key(arg[1]), msg_key(arg[2])>>
    /\ UNCHANGED <<arg, bridgeVars>>

CallIsEcho ==
    /\ call = "input"
    /\ \E d \in Delays :
          /\ call' = "is_echo"
          /\ ret' = [delay |-> d,
                     echo |-> is_echo(arg[2], mark_sent(arg[1], EmptyDict, 0), d)]
    /\ UNCHANGED <<arg, bridgeVars>>

KeyNext == CallMsgKey \/ CallIsEcho

SpecKey == KeyInit /\ [][KeyNext]_vars

SameType(m1, m2, t) == m1.type = t /\ m2.type = t

Datagrams ==
    {<<144, 60, 100>>, <<224, 0, 64, 248>>}

DawMsgs ==
    {NoteOn(0, 60, 100), PitchWheel(0, 100)}

Init == BridgeInit /\ NoCall

\* mido.open_output / mido.open_input: both succeed, or one of them raises
OpenVirtualPort ==
    /\ mainpc = "init"
    /\ \/ /\ midi_out' = "open"
          /\ midi_in' = "open"
          /\ mainpc' = "check_ip"
       \/ /\ midi_out' \in {"none", "open"}
          /\ midi_in' = "none"
          /\ mainpc' = "returned"
    /\ ev' = NoEvent
    /\ UNCHANGED <<LOCAL_IP, port, running, receivers, senders, rsock, ssock, rrunning,
                   rpc, rmsgs, rreg, dawpc, dawmsg, rx_count, tx_count, recent_to_daw,
                   recent_to_nucleus, now, received, decoded, drained, fwd_to_daw,
                   fwd_to_nucleus, orderVars, callVars>>

\* if not LOCAL_IP: return
CheckLocalIpIgnored ==
    /\ mainpc = "check_ip"
    /\ mainpc' = "recv_setup"
    /\ port' = 1
    /\ ev' = NoEvent
    /\ UNCHANGED <<LOCAL_IP, midi_out, midi_in, running, receivers, senders, rsock, ssock,
                   rrunning, rpc, rmsgs, rreg, dawpc, dawmsg, rx_count, tx_count,
                   recent_to_daw, recent_to_nucleus, now, received, decoded, drained,
                   fwd_to_daw, fwd_to_nucleus, orderVars, callVars>>

CheckLocalIp ==
    /\ mainpc = "check_ip"
    /\ IF LOCAL_IP
       THEN mainpc' = "recv_setup" /\ port' = 1
       ELSE mainpc' = "returned" /\ port' = port
    /\ ev' = NoEvent
    /\ UNCHANGED <<LOCAL_IP, midi_out, midi_in, running, receivers, senders, rsock, ssock,
                   rrunning, rpc, rmsgs, rreg, dawpc, dawmsg, rx_count, tx_count,
                   recent_to_daw, recent_to_nucleus, now, received, decoded, drained,
                   fwd_to_daw, fwd_to_nucleus, orderVars, callVars>>

\* receiver.setup_socket(); self.receivers.append(receiver); t.start()
ReceiverSetup ==
    /\ mainpc = "recv_setup"
    /\ rsock' = [rsock EXCEPT ![IPMIDI_PORTS[port]] = "open"]
    /\ receivers' = Append(receivers, IPMIDI_PORTS[port])
    /\ rpc' = [rpc EXCEPT ![IPMIDI_PORTS[port]] = "start"]
    /\ mainpc' = "send_setup"
    /\ ev' = NoEvent
    /\ UNCHANGED <<LOCAL_IP, port, midi_out, midi_in, running, senders, ssock,
                   rrunning, rmsgs, rreg, dawpc, dawmsg, rx_count, tx_count,
                   recent_to_daw, recent_to_nucleus, now, received, decoded,
                   drained, fwd_to_daw, fwd_to_nucleus, orderVars, callVars>>

\* receiver.setup_socket() raises: the port gets no receiver and no thread
ReceiverSetupFails ==
    /\ mainpc = "recv_setup"
    /\ mainpc' = "send_setup"
    /\ ev' = NoEvent
    /\ UNCHANGED <<LOCAL_IP, port, midi_out, midi_in, running, receivers,
                   senders, rsock, ssock, rrunning, rpc, rmsgs, rreg, dawpc,
                   dawmsg, rx_count, tx_count, recent_to_daw,
                   recent_to_nucleus, now, received, decoded, drained,
                   fwd_to_daw, fwd_to_nucleus, orderVars, callVars>>

\* for port_num in IPMIDI_PORTS: the next port, or the end of the loop
NextPort ==
    IF port < Len(IPMIDI_PORTS)
    THEN mainpc' = "recv_setup" /\ port' = port + 1
    ELSE mainpc' = "check_receivers" /\ port' = port

\* sender.setup_socket(); self.senders.append(sender)
SenderSetup ==
    /\ mainpc = "send_setup"
    /\ ssock' = [ssock EXCEPT ![IPMIDI_PORTS[port]] = "open"]
    /\ senders' = Append(senders, IPMIDI_PORTS[port])
    /\ NextPort
    /\ ev' = NoEvent
    /\ UNCHANGED <<LOCAL_IP, midi_out, midi_in, running, receivers, rsock,
                   rrunning, rpc, rmsgs, rreg, dawpc, dawmsg, rx_count,
                   tx_count, recent_to_daw, recent_to_nucleus, now, received,
                   decoded, drained, fwd_to_daw, fwd_to_nucleus, orderVars, callVars>>

\* sender.setup_socket() raises: the port gets no sender
SenderSetupFails ==
    /\ mainpc = "send_setup"
    /\ NextPort
    /\ ev' = NoEvent
    /\ UNCHANGED <<LOCAL_IP, midi_out, midi_in, running, receivers, senders,
                   rsock, ssock, rrunning, rpc, rmsgs, rreg, dawpc, dawmsg,
                   rx_count, tx_count, recent_to_daw, recent_to_nucleus, now,
                   received, decoded, drained, fwd_to_daw, fwd_to_nucleus,
                   orderVars, callVars>>

\* the bridge runs when any socket at all was set up
CheckReceiversOrSenders ==
    /\ mainpc = "check_receivers"
    /\ IF receivers = <<>> /\ senders = <<>>
       THEN mainpc' = "returned" /\ UNCHANGED <<running, dawpc>>
       ELSE mainpc' = "wait" /\ running' = TRUE /\ dawpc' = "while"
    /\ ev' = NoEvent
    /\ UNCHANGED <<LOCAL_IP, port, midi_out, midi_in, receivers, senders, rsock, ssock,
                   rrunning, rpc, rmsgs, rreg, dawmsg, rx_count, tx_count, recent_to_daw,
                   recent_to_nucleus, now, received, decoded, drained, fwd_to_daw,
                   fwd_to_nucleus, orderVars, callVars>>

\* if not self.receivers: return; self.running = True; start daw_receive_loop
CheckReceivers ==
    /\ mainpc = "check_receivers"
    /\ IF receivers = <<>>
       THEN mainpc' = "returned" /\ UNCHANGED <<running, dawpc>>
       ELSE mainpc' = "wait" /\ running' = TRUE /\ dawpc' = "while"
    /\ ev' = NoEvent
    /\ UNCHANGED <<LOCAL_IP, port, midi_out, midi_in, receivers, senders, rsock, ssock,
                   rrunning, rpc, rmsgs, rreg, dawmsg, rx_count, tx_count, recent_to_daw,
                   recent_to_nucleus, now, received, decoded, drained, fwd_to_daw,
                   fwd_to_nucleus, orderVars, callVars>>

\* KeyboardInterrupt in the wait loop: self.stop() begins
Interrupt ==
    /\ mainpc = "wait"
    /\ mainpc' = "stop"
    /\ ev' = NoEvent
    /\ UNCHANGED <<LOCAL_IP, port, midi_out, midi_in, running, receivers, senders, rsock,
                   ssock, rrunning, rpc, rmsgs, rreg, dawpc, dawmsg, rx_count, tx_count,
                   recent_to_daw, recent_to_nucleus, now, received, decoded, drained,
                   fwd_to_daw, fwd_to_nucleus, orderVars, callVars>>

InList(list, p) == \E j \in 1..Len(list) : list[j] = p

\* stop: self.running = False
StopFlag ==
    /\ mainpc = "stop"
    /\ running' = FALSE
    /\ mainpc' = "stop_receivers"
    /\ ev' = NoEvent
    /\ UNCHANGED <<LOCAL_IP, port, midi_out, midi_in, receivers, senders, rsock, ssock,
                   rrunning, rpc, rmsgs, rreg, dawpc, dawmsg, rx_count, tx_count,
                   recent_to_daw, recent_to_nucleus, now, received, decoded, drained,
                   fwd_to_daw, fwd_to_nucleus, orderVars, callVars>>

\* stop: for r in self.receivers: r.stop()
StopReceivers ==
    /\ mainpc = "stop_receivers"
    /\ rrunning' = [p \in Ports |-> IF InList(receivers, p) THEN FALSE ELSE rrunning[p]]
    /\ rsock' = [p \in Ports |-> IF InList(receivers, p) THEN "closed" ELSE rsock[p]]
    /\ mainpc' = "stop_senders"
    /\ ev' = NoEvent
    /\ UNCHANGED <<LOCAL_IP, port, midi_out, midi_in, running, receivers, senders, ssock,
                   rpc, rmsgs, rreg, dawpc, dawmsg, rx_count, tx_count, recent_to_daw,
                   recent_to_nucleus, now, received, decoded, drained, fwd_to_daw,
                   fwd_to_nucleus, orderVars, callVars>>

\* stop: for s in self.senders: s.stop(); midi_out.close(); midi_in.close()
StopSenders ==
    /\ mainpc = "stop_senders"
    /\ ssock' = [p \in Ports |-> IF InList(senders, p) THEN "closed" ELSE ssock[p]]
    /\ midi_out' = "closed"
    /\ midi_in' = "closed"
    /\ mainpc' = "stopped"
    /\ ev' = NoEvent
    /\ UNCHANGED <<LOCAL_IP, port, running, receivers, senders, rsock, rrunning, rpc,
                   rmsgs, rreg, dawpc, dawmsg, rx_count, tx_count, recent_to_daw,
                   recent_to_nucleus, now, received, decoded, drained, fwd_to_daw,
                   fwd_to_nucleus, orderVars, callVars>>

(***************************************************************************)
(* ipMIDIReceiver.receive_loop, one thread per port, with the callback     *)
(* handle_from_nucleus.                                                    *)
(***************************************************************************)
\* the history of completed forwards: identity -> time
Remember(history, key, t) ==
    IF key = None THEN history
    ELSE [k \in DOMAIN history \cup {key} |-> IF k = key THEN t ELSE history[k]]

\* the thread's first statement: self.running = True
ReceiveStart(p) ==
    /\ rpc[p] = "start"
    /\ rrunning' = [rrunning EXCEPT ![p] = TRUE]
    /\ rpc' = [rpc EXCEPT ![p] = "while"]
    /\ ev' = NoEvent
    /\ UNCHANGED <<LOCAL_IP, mainpc, port, midi_out, midi_in, running,
                   receivers, senders, rsock, ssock, rmsgs, rreg, dawpc,
                   dawmsg, rx_count, tx_count, recent_to_daw,
                   recent_to_nucleus, now, received, decoded, drained,
                   fwd_to_daw, fwd_to_nucleus, orderVars, callVars>>

\* while self.running: the loop ends when the flag is down
ReceiveExit(p) ==
    /\ rpc[p] = "while"
    /\ ~rrunning[p]
    /\ rpc' = [rpc EXCEPT ![p] = "exit"]
    /\ ev' = NoEvent
    /\ UNCHANGED <<LOCAL_IP, mainpc, port, midi_out, midi_in, running,
                   receivers, senders, rsock, ssock, rrunning, rmsgs, rreg,
                   dawpc, dawmsg, rx_count, tx_count, recent_to_daw,
                   recent_to_nucleus, now, received, decoded, drained,
                   fwd_to_daw, fwd_to_nucleus, orderVars, callVars>>

\* recvfrom raises: socket.timeout, or an error (always so on a closed
\* socket); the loop goes round again
ReceiveNothing(p) ==
    /\ rpc[p] = "while"
    /\ rrunning[p]
    /\ ev' = NoEvent
    /\ UNCHANGED <<LOCAL_IP, mainpc, port, midi_out, midi_in, running,
                   receivers, senders, rsock, ssock, rrunning, rpc, rmsgs,
                   rreg, dawpc, dawmsg, rx_count, tx_count, recent_to_daw,
                   recent_to_nucleus, now, received, decoded, drained,
                   fwd_to_daw, fwd_to_nucleus, orderVars, callVars>>

\* recvfrom returns a datagram; the callback decodes it.  When the decoder
\* raises, receive_loop catches the exception and goes round again.
ReceiveDatagram(p) ==
    /\ rpc[p] = "while"
    /\ rrunning[p]
    /\ rsock[p] = "open"
    /\ received + drained < MaxInputs
    /\ \E data \in Datagrams :
          LET parsed == parse_midi_bytes(data)
          IN  IF parsed.raised \/ parsed.messages = <<>>
              THEN UNCHANGED <<rmsgs, rpc, rx_observed>>
              ELSE /\ rmsgs' = [rmsgs EXCEPT ![p] = parsed.messages]
                   /\ rpc' = [rpc EXCEPT ![p] = "load"]
                   /\ rx_observed' = [rx_observed EXCEPT ![p] = @ \o parsed.messages]
    /\ received' = received + 1
    /\ ev' = NoEvent
    /\ UNCHANGED <<LOCAL_IP, mainpc, port, midi_out, midi_in, running,
                   receivers, senders, rsock, ssock, rrunning, rreg, dawpc,
                   dawmsg, rx_count, tx_count, recent_to_daw,
                   recent_to_nucleus, now, decoded, drained, fwd_to_daw,
                   fwd_to_nucleus, rx_delivered, tx_observed, tx_sent, callVars>>

\* self.rx_count += 1 reads the counter ...
HandleLoad(p) ==
    /\ rpc[p] = "load"
    /\ rreg' = [rreg EXCEPT ![p] = rx_count]
    /\ decoded' = decoded + 1
    /\ rpc' = [rpc EXCEPT ![p] = "store"]
    /\ ev' = NoEvent
    /\ UNCHANGED <<LOCAL_IP, mainpc, port, midi_out, midi_in, running,
                   receivers, senders, rsock, ssock, rrunning, rmsgs, dawpc,
                   dawmsg, rx_count, tx_count, recent_to_daw,
                   recent_to_nucleus, now, received, drained, fwd_to_daw,
                   fwd_to_nucleus, orderVars, callVars>>

\* ... and writes it back, one more; is_echo is entered
HandleStore(p) ==
    /\ rpc[p] = "store"
    /\ rx_count' = rreg[p] + 1
    /\ rpc' = [rpc EXCEPT ![p] = "is_echo"]
    /\ ev' = NoEvent
    /\ UNCHANGED <<LOCAL_IP, mainpc, port, midi_out, midi_in, running,
                   receivers, senders, rsock, ssock, rrunning, rmsgs, rreg,
                   dawpc, dawmsg, tx_count, recent_to_daw, recent_to_nucleus,
                   now, received, decoded, drained, fwd_to_daw,
                   fwd_to_nucleus, orderVars, callVars>>

\* the thread handles the same message again
NextMessageAgain(p, pcs, msgs) ==
    /\ msgs' = msgs
    /\ pcs' = [pcs EXCEPT ![p] = "load"]

\* the thread goes on to the next message of the datagram, or back to the loop
NextMessage(p, pcs, msgs) ==
    /\ msgs' = [msgs EXCEPT ![p] = Tail(msgs[p])]
    /\ pcs' = [pcs EXCEPT ![p] = IF Tail(msgs[p]) = <<>> THEN "while" ELSE "load"]

\* the record of what went to the virtual port, the side the message came from
SameSideOfNucleus == recent_to_daw

\* the record handle_from_nucleus looks the message up in: what was sent to
\* multicast
LookupFromNucleus == recent_to_nucleus

\* the record handle_from_daw looks the message up in: what was sent to the
\* virtual port
LookupFromDaw == recent_to_daw

\* is_echo(msg, self.recent_to_nucleus): an echo is dropped (continue);
\* otherwise the message, translated if enabled, goes to midi_out.send, which
\* raises on a closed port (receive_loop catches it), and mark_sent is entered
HandleEcho(p) ==
    /\ rpc[p] = "is_echo"
    /\ LET msg == Head(rmsgs[p])
           out_msg == IF TRANSLATE_TO_CC THEN translate_to_cc(msg) ELSE msg
           echo == is_echo(msg, LookupFromNucleus, now)
       IN  /\ ev' = [kind |-> "nucleus", msg |-> msg, echo |-> echo, time |-> now,
                     sent |-> IF ~echo /\ midi_out = "open" THEN <<out_msg>> ELSE <<>>,
                     raised |-> ~echo /\ midi_out # "open"]
           /\ IF echo
              THEN NextMessage(p, rpc, rmsgs) /\ UNCHANGED rx_delivered
              ELSE IF midi_out = "open"
              THEN /\ rmsgs' = [rmsgs EXCEPT ![p] = <<out_msg>> \o Tail(rmsgs[p])]
                   /\ rpc' = [rpc EXCEPT ![p] = "mark_sent"]
                   /\ rx_delivered' = [rx_delivered EXCEPT ![p] = Append(@, out_msg)]
              ELSE /\ rmsgs' = [rmsgs EXCEPT ![p] = <<>>]
                   /\ rpc' = [rpc EXCEPT ![p] = "while"]
                   /\ UNCHANGED rx_delivered
    /\ UNCHANGED <<LOCAL_IP, mainpc, port, midi_out, midi_in, running,
                   receivers, senders, rsock, ssock, rrunning, rreg, dawpc,
                   dawmsg, rx_count, tx_count, recent_to_daw,
                   recent_to_nucleus, now, received, decoded, drained,
                   fwd_to_daw, fwd_to_nucleus, rx_observed, tx_observed, tx_sent,
                   callVars>>

\* mark_sent(out_msg, self.recent_to_daw)
HandleMark(p) ==
    /\ rpc[p] = "mark_sent"
    /\ recent_to_daw' = mark_sent(Head(rmsgs[p]), recent_to_daw, now)
    /\ fwd_to_daw' = Remember(fwd_to_daw, msg_key(Head(rmsgs[p])), now)
    /\ NextMessage(p, rpc, rmsgs)
    /\ ev' = [kind |-> "marked_to_daw", msg |-> Head(rmsgs[p]), time |-> now]
    /\ UNCHANGED <<LOCAL_IP, mainpc, port, midi_out, midi_in, running,
                   receivers, senders, rsock, ssock, rrunning, rreg, dawpc,
                   dawmsg, rx_count, tx_count, recent_to_nucleus, now,
                   received, decoded, drained, fwd_to_nucleus, orderVars, callVars>>

(***************************************************************************)
(* NucleusBridge.daw_receive_loop with handle_from_daw, on its own thread. *)
(***************************************************************************)
\* while self.running: the loop ends when the flag is down
DawExit ==
    /\ dawpc = "while"
    /\ ~running
    /\ dawpc' = "exit"
    /\ ev' = NoEvent
    /\ UNCHANGED <<LOCAL_IP, mainpc, port, midi_out, midi_in, running,
                   receivers, senders, rsock, ssock, rrunning, rpc, rmsgs,
                   rreg, dawmsg, rx_count, tx_count, recent_to_daw,
                   recent_to_nucleus, now, received, decoded, drained,
                   fwd_to_daw, fwd_to_nucleus, orderVars, callVars>>

\* iter_pending() yields a message, the first of a drain or one more;
\* handle_from_daw counts it and enters is_echo
DawTake ==
    /\ \/ dawpc = "while" /\ running
       \/ dawpc = "pending"
    /\ midi_in = "open"
    /\ received + drained < MaxInputs
    /\ \E msg \in DawMsgs : dawmsg' = msg /\ tx_observed' = Append(tx_observed, msg)
    /\ tx_count' = tx_count + 1
    /\ drained' = drained + 1
    /\ dawpc' = "is_echo"
    /\ ev' = NoEvent
    /\ UNCHANGED <<LOCAL_IP, mainpc, port, midi_out, midi_in, running,
                   receivers, senders, rsock, ssock, rrunning, rpc, rmsgs,
                   rreg, rx_count, recent_to_daw, recent_to_nucleus, now,
                   received, decoded, fwd_to_daw, fwd_to_nucleus, rx_observed,
                   rx_delivered, tx_sent, callVars>>

\* iter_pending() has nothing more (or raises on a closed port): wait 1 ms
\* and go round the while loop
DawIdle ==
    /\ dawpc = "pending"
    /\ dawpc' = "while"
    /\ ev' = NoEvent
    /\ UNCHANGED <<LOCAL_IP, mainpc, port, midi_out, midi_in, running,
                   receivers, senders, rsock, ssock, rrunning, rpc, rmsgs,
                   rreg, dawmsg, rx_count, tx_count, recent_to_daw,
                   recent_to_nucleus, now, received, decoded, drained,
                   fwd_to_daw, fwd_to_nucleus, orderVars, callVars>>

\* sender.send(data) succeeds on the first n senders
SendsOk(n) == \A j \in 1..n : ssock[senders[j]] = "open"

\* for sender in self.senders: sender.send(data) stops where a send raises
FanOut(n) == [j \in 1..n |-> senders[j]]

\* a send that raised ends the poll loop
AfterFanOutFatal(n) == IF n = Len(senders) THEN "mark_sent" ELSE "exit"

\* where the poll thread goes after the fan-out: on to mark_sent when no send
\* raised; otherwise the except clause of daw_receive_loop takes the
\* exception and the while loop goes round
AfterFanOut(n) == IF n = Len(senders) THEN "mark_sent" ELSE "while"

\* is_echo(msg, self.recent_to_daw): an echo is dropped (return); otherwise
\* the message, translated if enabled, is encoded and sent on every sender in
\* turn.  A send that raises ends handle_from_daw (daw_receive_loop catches
\* the exception); when none raises, mark_sent is entered.
DawEcho ==
    /\ dawpc = "is_echo"
    /\ LET msg == dawmsg
           out_msg == IF TRANSLATE_TO_CC THEN translate_from_cc(msg) ELSE msg
           echo == is_echo(msg, LookupFromDaw, now)
       IN  IF echo
           THEN /\ ev' = [kind |-> "daw", msg |-> msg, echo |-> TRUE, time |-> now,
                          data |-> <<>>, sent |-> <<>>, raised |-> FALSE]
                /\ dawpc' = "pending"
                /\ dawmsg' = dawmsg
                /\ tx_sent' = tx_sent
           ELSE \E n \in 0..Len(senders) :
                   /\ SendsOk(n)
                   /\ ev' = [kind |-> "daw", msg |-> msg, echo |-> FALSE, time |-> now,
                             data |-> MsgBytes(out_msg), sent |-> FanOut(n),
                             raised |-> n < Len(senders)]
                   /\ dawpc' = AfterFanOut(n)
                   /\ dawmsg' = out_msg
                   /\ tx_sent' = [s \in Ports |->
                                     IF InList(FanOut(n), s)
                                     THEN Append(tx_sent[s], MsgBytes(out_msg))
                                     ELSE tx_sent[s]]
    /\ UNCHANGED <<LOCAL_IP, mainpc, port, midi_out, midi_in, running,
                   receivers, senders, rsock, ssock, rrunning, rpc, rmsgs,
                   rreg, rx_count, tx_count, recent_to_daw, recent_to_nucleus,
                   now, received, decoded, drained, fwd_to_daw,
                   fwd_to_nucleus, rx_observed, rx_delivered, tx_observed,
                   callVars>>

\* mark_sent(out_msg, self.recent_to_nucleus)
DawMark ==
    /\ dawpc = "mark_sent"
    /\ recent_to_nucleus' = mark_sent(dawmsg, recent_to_nucleus, now)
    /\ fwd_to_nucleus' = Remember(fwd_to_nucleus, msg_key(dawmsg), now)
    /\ dawpc' = "pending"
    /\ ev' = [kind |-> "marked_to_nucleus", msg |-> dawmsg, time |-> now]
    /\ UNCHANGED <<LOCAL_IP, mainpc, port, midi_out, midi_in, running,
                   receivers, senders, rsock, ssock, rrunning, rpc, rmsgs,
                   rreg, dawmsg, rx_count, tx_count, recent_to_daw, now,
                   received, decoded, drained, fwd_to_daw, orderVars, callVars>>

\* time passes; the clock is read only against a recorded timestamp, so it
\* is left at 0 until there is one
Tick ==
    /\ DOMAIN recent_to_daw \cup DOMAIN recent_to_nucleus # {}
    /\ now + TickMs <= MaxNow
    /\ now' = now + TickMs
    /\ ev' = NoEvent
    /\ UNCHANGED <<LOCAL_IP, mainpc, port, midi_out, midi_in, running,
                   receivers, senders, rsock, ssock, rrunning, rpc, rmsgs,
                   rreg, dawpc, dawmsg, rx_count, tx_count, recent_to_daw,
                   recent_to_nucleus, received, decoded, drained, fwd_to_daw,
                   fwd_to_nucleus, orderVars, callVars>>

\* start and stop on the main thread, every socket setup succeeding
StartStop ==
    \/ OpenVirtualPort \/ CheckLocalIp \/ ReceiverSetup \/ SenderSetup
    \/ CheckReceivers \/ Interrupt \/ StopFlag \/ StopReceivers \/ StopSenders

\* a socket setup that raises
SetupFailure == ReceiverSetupFails \/ SenderSetupFails

\* the loops with nothing to handle
Loops ==
    \/ \E p \in Ports : ReceiveStart(p) \/ ReceiveExit(p) \/ ReceiveNothing(p)
    \/ DawExit

\* datagrams and virtual-port messages arriving and being handled, and time
Traffic ==
    \/ \E p \in Ports :
          \/ ReceiveDatagram(p)
          \/ HandleLoad(p) \/ HandleStore(p) \/ HandleEcho(p) \/ HandleMark(p)
    \/ DawTake \/ DawIdle \/ DawEcho \/ DawMark
    \/ Tick

Next == StartStop \/ SetupFailure \/ Loops \/ Traffic

Spec == Init /\ [][Next]_vars

\* the bridge when every socket setup succeeds
NextRun == StartStop \/ Loops \/ Traffic

SpecRun == Init /\ [][NextRun]_vars

\* the bridge when nothing arrives: start, the loops and stop
NextLifecycle == StartStop \/ SetupFailure \/ Loops

SpecLifecycle == Init /\ [][NextLifecycle]_vars

C7_FanOutToEverySender ==
    ev.kind = "daw" =>
        IF ev.echo THEN ev.sent = <<>>
        ELSE ev.sent = senders /\ ev.data = MsgBytes(ev.msg)

\* C9: the counters.  Whenever no thread is in the middle of an increment,
\* rx_count is the number of messages decoded so far and tx_count the number
\* of messages drained so far from the virtual port.
C9_CountersExact ==
    (\A p \in Ports : rpc[p] # "store") =>
        /\ rx_count = decoded
        /\ tx_count = drained

(***************************************************************************)
(* Properties of start.                                                    *)
(***************************************************************************)
\* C10: fatal startup.  Once opening the virtual port has failed, or the check
\* of LOCAL_IP has found no address, start has returned: no multicast socket
\* exists, no receive thread and no poll thread was spawned, and the running
\* flag is down.
C10_FatalStartup ==
    (\/ mainpc # "init" /\ midi_in = "none"
     \/ mainpc \notin {"init", "check_ip"} /\ ~LOCAL_IP) =>
        /\ mainpc = "returned"
        /\ \A p \in Ports : rsock[p] = "none" /\ ssock[p] = "none" /\ rpc[p] = "none"
        /\ receivers = <<>>
        /\ senders = <<>>
        /\ dawpc = "none"
        /\ ~running

\* start has returned because there is no link-local address
C10_Witness ==
    /\ mainpc = "returned"
    /\ ~LOCAL_IP
    /\ midi_out = "open"
    /\ midi_in = "open"

\* the loop over IPMIDI_PORTS has ended
SetupDone ==
    \/ mainpc \in {"check_receivers", "wait", "stop", "stop_receivers", "stop_senders",
                   "stopped"}
    \/ mainpc = "returned" /\ port = Len(IPMIDI_PORTS)

\* the setup of the port's receive socket, of its send socket, raised
ReceiverFailed(p) == rsock[p] = "none"

SenderFailed(p) == ssock[p] = "none"

\* start went on to run the bridge
BridgeRan == mainpc \in {"wait", "stop", "stop_receivers", "stop_senders", "stopped"}

\* C11 as stated: a port with a failed socket setup is skipped entirely, it
\* has neither a receive loop nor a send channel, and the bridge runs exactly
\* when at least one port was set up successfully.
C11_PortSkippedEntirely ==
    SetupDone =>
        /\ \A p \in Ports :
              (ReceiverFailed(p) \/ SenderFailed(p)) =>
                  /\ ~InList(receivers, p)
                  /\ rpc[p] = "none"
                  /\ ~InList(senders, p)
        /\ mainpc # "check_receivers" =>
              (BridgeRan <=> \E p \in Ports : ~ReceiverFailed(p) /\ ~SenderFailed(p))

\* C11 amended: the two sockets of a port are set up independently.  A port
\* has a receiver and a receive thread exactly when its receive socket was set
\* up, and a send channel exactly when its send socket was set up; the bridge
\* runs exactly when at least one receive socket was set up.
C11_DirectionSkipped ==
    SetupDone =>
        /\ \A p \in Ports :
              /\ ReceiverFailed(p) <=> ~InList(receivers, p)
              /\ ReceiverFailed(p) <=> rpc[p] = "none"
              /\ SenderFailed(p) <=> ~InList(senders, p)
        /\ mainpc # "check_receivers" =>
              (BridgeRan <=> \E p \in Ports : ~ReceiverFailed(p))

\* the bridge runs with port 1 sending but not receiving and port 2 receiving
\* but not sending
C11_Witness ==
    /\ mainpc = "wait"
    /\ ReceiverFailed(1) /\ ~SenderFailed(1) /\ InList(senders, 1) /\ rpc[1] = "none"
    /\ ~ReceiverFailed(2) /\ SenderFailed(2) /\ InList(receivers, 2)

(***************************************************************************)
(* Shutdown.  Every thread that can take a step eventually takes one: the  *)
(* main thread goes through stop, a spawned receive thread executes its    *)
(* first statement, and a loop whose flag is down leaves (the receive      *)
(* timeout brings it back to its while test).  The interrupt itself is not *)
(* forced.                                                                 *)
(***************************************************************************)
Fairness ==
    /\ WF_vars(StopFlag)
    /\ WF_vars(StopReceivers)
    /\ WF_vars(StopSenders)
    /\ WF_vars(DawExit)
    /\ \A p \in Ports : WF_vars(ReceiveStart(p)) /\ WF_vars(ReceiveExit(p))

SpecShutdown == Init /\ [][NextLifecycle]_vars /\ Fairness

\* every loop thread that was spawned has left its loop
LoopsExited ==
    /\ \A p \in Ports : rpc[p] \in {"none", "exit"}
    /\ dawpc \in {"none", "exit"}

\* C12: shutdown liveness.  Once stop has been called, stop eventually
\* returns and every receive loop and the poll loop has exited.
C12_ShutdownLiveness ==
    (mainpc = "stop") ~> (mainpc = "stopped" /\ LoopsExited)

(***************************************************************************)
(* Access to the two EchoRecord maps.  A thread is inside is_echo or       *)
(* mark_sent on a map from the call until the step that performs it; a     *)
(* message without identity returns before the map is touched.             *)
(***************************************************************************)
\* how many threads are inside is_echo(msg, self.recent_to_nucleus) (the
\* receive threads) or mark_sent(out_msg, self.recent_to_nucleus) (the poll
\* thread)
InNucleusMap ==
    Cardinality({p \in Ports : rpc[p] = "is_echo" /\ msg_key(Head(rmsgs[p])) # None})
    + (IF dawpc = "mark_sent" /\ msg_key(dawmsg) # None THEN 1 ELSE 0)

\* how many threads are inside mark_sent(out_msg, self.recent_to_daw) (the
\* receive threads) or is_echo(msg, self.recent_to_daw) (the poll thread)
InDawMap ==
    Cardinality({p \in Ports : rpc[p] = "mark_sent" /\ msg_key(Head(rmsgs[p])) # None})
    + (IF dawpc = "is_echo" /\ msg_key(dawmsg) # None THEN 1 ELSE 0)

\* C13: access to each EchoRecord map is serialized.  In no reachable state
\* are two threads inside a lookup or a write on the same map.
C13_MapAccessSerialized ==
    /\ InNucleusMap <= 1
    /\ InDawMap <= 1

(***************************************************************************)
(* Ordering.                                                               *)
(***************************************************************************)
\* a is b with some of its elements left out, the order kept
RECURSIVE IsSubseq(_, _)
IsSubseq(a, b) ==
    IF a = <<>> THEN TRUE
    ELSE IF b = <<>> THEN FALSE
    ELSE IF Head(a) = Head(b) THEN IsSubseq(Tail(a), Tail(b))
    ELSE IsSubseq(a, Tail(b))

\* what handle_from_nucleus hands to midi_out.send for a decoded message, and
\* what handle_from_daw transmits for a virtual-port message
OutToDaw(msg) == IF TRANSLATE_TO_CC THEN translate_to_cc(msg) ELSE msg

OutToNucleus(msg) == MsgBytes(IF TRANSLATE_TO_CC THEN translate_from_cc(msg) ELSE msg)

\* C14: ordering.  The messages delivered to the virtual port from one
\* multicast channel are, in order, a subsequence of the messages that
\* channel decoded (datagram order, then decode order), and the encodings
\* transmitted on each sender are, in order, a subsequence of the messages the
\* virtual port delivered.
C14_Ordering ==
    /\ \A p \in Ports :
          IsSubseq(rx_delivered[p],
                   [j \in 1..Len(rx_observed[p]) |-> OutToDaw(rx_observed[p][j])])
    /\ \A p \in Ports :
          IsSubseq(tx_sent[p],
                   [j \in 1..Len(tx_observed) |-> OutToNucleus(tx_observed[j])])

\* port 1 has received two datagrams of three messages in all, and the three
\* have gone to the virtual port
C14_Witness ==
    /\ rx_observed[1] = <<PitchWheel(0, 0), RealTime("clock"), NoteOn(0, 60, 100)>>
    /\ rx_delivered[1] = rx_observed[1]

(***************************************************************************)
(* Resources.                                                              *)
(***************************************************************************)
\* start has returned, after stop or early
ShutDown == mainpc \in {"returned", "stopped"}

\* C15: resource lifecycle.  Once the bridge has shut down, on whatever path
\* through start and stop, every socket and virtual-port handle that start
\* opened has been closed.
C15_OpenedHandlesClosed ==
    ShutDown =>
        /\ midi_out \in {"none", "closed"}
        /\ midi_in \in {"none", "closed"}
        /\ \A p \in Ports : rsock[p] \in {"none", "closed"} /\ ssock[p] \in {"none", "closed"}

(***************************************************************************)
(* The decoder on arbitrary buffers: any byte in any position.             *)
(***************************************************************************)
\* data bytes, bytes above 127 that are no status the decoder knows, status
\* bytes of every branch
ByteSample == {0, 64, 127, 128, 144, 200, 224, 240, 247, 248, 255}

DecodeAnyInit ==
    /\ BridgeInit
    /\ LOCAL_IP
    /\ call = "input"
    /\ ret = <<>>
    /\ \E b \in SeqsUpTo(ByteSample, MaxBufLen) : arg = [chunks |-> <<b>>, tail |-> <<>>]

SpecDecodeAny == DecodeAnyInit /\ [][DecodeNext]_vars

\* C16: the decoder on arbitrary input.  For every buffer of bytes 0..255,
\* parse_midi_bytes returns a list without raising, and every message of the
\* list has its 7-bit fields in 0..127, its channel in 0..15 and its pitch in
\* -8192..8191.
C16_DecoderTotal ==
    call = "parse_midi_bytes" =>
        /\ ~ret.raised
        /\ \A j \in 1..Len(ret.messages) : MessageOk(ret.messages[j])

(***************************************************************************)
(* What a handler step changes.                                            *)
(***************************************************************************)
\* after is the map before with the identity of msg, when it has one, set to
\* time t and every other entry as it was
RecordedIn(before, after, msg, t) ==
    LET key == msg_key(msg)
    IN  IF key = None THEN after = before
        ELSE /\ DOMAIN after = DOMAIN before \cup {key}
             /\ after[key] = t
             /\ \A k \in DOMAIN before : k # key => after[k] = before[k]

\* C17: frame effects of the handlers.  A step that classifies a message as
\* an echo sends nothing and leaves both echo records as they were.  The
\* step that records a forwarded message sets its identity to the current
\* time in the record of the direction it went (recent_to_daw in
\* handle_from_nucleus, recent_to_nucleus in handle_from_daw) and leaves the
\* other record as it was; no other step changes a record, and every forward
\* whose sends all returned goes on to that step.
C17_HandlerFrame ==
    [][/\ (ev'.kind \in {"nucleus", "daw"} /\ ev'.echo) =>
             /\ ev'.sent = <<>>
             /\ rx_delivered' = rx_delivered
             /\ tx_sent' = tx_sent
             /\ recent_to_daw' = recent_to_daw
             /\ recent_to_nucleus' = recent_to_nucleus
       /\ ev'.kind = "marked_to_daw" =>
             /\ RecordedIn(recent_to_daw, recent_to_daw', ev'.msg, now)
             /\ recent_to_nucleus' = recent_to_nucleus
       /\ ev'.kind = "marked_to_nucleus" =>
             /\ RecordedIn(recent_to_nucleus, recent_to_nucleus', ev'.msg, now)
             /\ recent_to_daw' = recent_to_daw
       /\ recent_to_daw' # recent_to_daw => ev'.kind = "marked_to_daw"
       /\ recent_to_nucleus' # recent_to_nucleus => ev'.kind = "marked_to_nucleus"
       /\ (ev'.kind = "nucleus" /\ ~ev'.echo /\ ~ev'.raised) =>
             \E p \in Ports : rpc[p] = "is_echo" /\ rpc'[p] = "mark_sent"
       /\ (ev'.kind = "daw" /\ ~ev'.echo /\ ~ev'.raised) =>
             dawpc' = "mark_sent"
      ]_vars

\* a virtual-port message has been dropped at 25 ms as the echo of a forward
\* recorded at 0 ms, and the record still says 0 ms
C17_Witness ==
    /\ ev.kind = "daw"
    /\ ev.echo
    /\ ev.time = 25
    /\ recent_to_daw[msg_key(ev.msg)] = 0
    /\ recent_to_nucleus = EmptyDict
    /\ ev.sent = <<>>

(***************************************************************************)
(* Errors inside the loops.                                                *)
(***************************************************************************)
\* C18: transient I/O errors are recovered locally.  A send that raises
\* during the fan-out, or a send to the virtual port that raises, takes the
\* owning thread back to the while test of its loop, and a loop is left only
\* when its running flag is down: no receive timeout, receive error or send
\* failure ends it.
C18_ErrorsRecovered ==
    [][/\ (ev'.kind = "daw" /\ ev'.raised) => dawpc' = "while"
       /\ (ev'.kind = "nucleus" /\ ev'.raised) =>
             \E p \in Ports : rpc[p] = "is_echo" /\ rpc'[p] = "while"
       /\ (dawpc # "exit" /\ dawpc' = "exit") => (dawpc = "while" /\ ~running)
       /\ \A p \in Ports :
             (rpc[p] # "exit" /\ rpc'[p] = "exit") => (rpc[p] = "while" /\ ~rrunning[p])
      ]_vars

\* the first virtual-port message went out on senders 1 and 2 and the send on
\* sender 3 raised; the poll loop has gone on, with the flag still set, to
\* send the second message on all three
C18_Witness ==
    /\ running
    /\ ev.kind = "daw"
    /\ ev.sent = <<1, 2, 3>>
    /\ Len(tx_sent[1]) = 2
    /\ Len(tx_sent[2]) = 2
    /\ Len(tx_sent[3]) = 1

(***************************************************************************)
(* Suppression and the side a message came from.                           *)
(***************************************************************************)
\* C19: suppression is strictly cross-direction.  A message from the device
\* is classified as an echo only when a message of its identity was forwarded
\* from the virtual port before, and the other way round; while
\* handle_from_daw has never been invoked every message handle_from_nucleus
\* decodes goes to the virtual port (unless the send raises), and while no
\* datagram has arrived every virtual-port message is fanned out (unless a
\* send raises).
C19_CrossDirectionOnly ==
    /\ (ev.kind = "nucleus" /\ ev.echo) => msg_key(ev.msg) \in DOMAIN fwd_to_nucleus
    /\ (ev.kind = "daw" /\ ev.echo) => msg_key(ev.msg) \in DOMAIN fwd_to_daw
    /\ (ev.kind = "nucleus" /\ tx_observed = <<>>) =>
          /\ ~ev.echo
          /\ ev.sent = <<OutToDaw(ev.msg)>> \/ ev.raised
    /\ (ev.kind = "daw" /\ received = 0) =>
          /\ ~ev.echo
          /\ ev.sent = senders \/ ev.raised

\* with nothing from the virtual port, a message from the device goes to the
\* virtual port in the same millisecond in which a message of its identity
\* from the device was forwarded and recorded
C19_Witness ==
    /\ tx_observed = <<>>
    /\ ev.kind = "nucleus"
    /\ msg_key(ev.msg) \in DOMAIN recent_to_daw
    /\ recent_to_daw[msg_key(ev.msg)] = ev.time
    /\ ~ev.echo
    /\ ev.sent = <<ev.msg>>

(***************************************************************************)
(* The two translations composed.                                          *)
(***************************************************************************)
\* C20: round trip from the software side.  For every ControlChange on
\* channel 0 with control 1..9 and value 0..127,
\* translate_to_cc(translate_from_cc(msg)) is msg; the other composition is
\* not the identity on pitch values.
C20_RoundTripFromCC ==
    /\ (call = "to_cc_of_from_cc" /\ IsFaderCC(arg) /\ arg.channel = 0) => ret = arg
    /\ (call = "to_cc_of_from_cc" /\ arg = ControlChange(0, 1, 0)) =>
          \E p \in MinPitch..MaxPitch :
              translate_from_cc(translate_to_cc(PitchWheel(0, p))) # PitchWheel(0, p)

\* ControlChange(0, 9, 127) has gone to PitchWheel(8, 8191) and come back
C20_Witness ==
    /\ call = "to_cc_of_from_cc"
    /\ arg = ControlChange(0, 9, 127)
    /\ translate_from_cc(arg) = PitchWheel(8, 8191)
    /\ ret = arg

=============================================================================
